---- MODULE Spec2Model ----
(***************************************************************************)
(* Todo dependency management (previous/next links between todos) and      *)
(* project membership of the MyTodoList backend, as state machines.        *)
(*                                                                         *)
(* Every service call is one atomic action.  A call is issued when no      *)
(* response is pending (last.op = "idle"); the action runs the whole       *)
(* handler and leaves the request, the response and the store the handler  *)
(* read in `last`; the presentation layer then hands the response to the   *)
(* caller (Return), after which the next call can be issued.               *)
(*                                                                         *)
(* The walks carry the sequence of their get_by_id calls and a depth or    *)
(* iteration budget WalkLimit, which no walk of the service uses up; the   *)
(* interpreter's own recursion limit lies far above any chain modelled     *)
(* here and is not part of the model.                                      *)
(***************************************************************************)
EXTENDS Integers, Sequences, FiniteSets, TLC

\* ---------------------------------------------------------------- bounds
\* Todo rows 1..NumTodos exist initially; calls are issued while at most
\* MaxLinks link fields of the todos table are non-null.
NumTodos == 3
MaxLinks == 2
\* At most NumProjects projects are ever created.
NumProjects == 2
\* Reminders created.
NumReminders == 2
\* process_reminders calls that may deliver one reminder before the model stops.
MaxSendingCalls == 2

\* ------------------------------------------------------------- constants
\* Python None / SQL NULL of the two nullable link columns.  The service
\* tests the link fields by truthiness, so 0 and None are the same to it.
None == 0

Users == {1, 2}
TodoIds == 1..NumTodos
\* An id that no row of the todos table has.
MaxTodoId == NumTodos + 1
AnyTodoId == 1..MaxTodoId
DependencyTypes == {"previous", "next"}
\* dependency_type is a free str of the request.
RequestTypes == DependencyTypes \cup {"sibling"}
\* direction is a free str of the request.
RequestDirections == {"previous", "next", "both", "sideways"}

\* Python's bound on the depth of the recursive cycle check and the budget
\* of loop iterations a walk is observed for.
WalkLimit == MaxTodoId + 2

\* role is a CharField whose choices are these three.
Roles == {"Owner", "Admin", "Member"}
\* The users of the project subsystem: whoever owns a project, and another.
ProjectUsers == {1, 2}
\* name is a str stripped of whitespace; "" is the blank name.
ProjectNames == {"", "p"}
\* BaseFilter's page size when the caller gives no limit.
DefaultLimit == 20

VARIABLES todos, projects, members, reminders, deliveries, last

vars == <<todos, projects, members, reminders, deliveries, last>>

\* ------------------------------------------------------------ todo store
NoTodo == [exists |-> FALSE, user_id |-> None,
           previous_todo_id |-> None, next_todo_id |-> None]

\* TodoRepositoryService.get_by_id: the row, or None when there is none.
get_by_id(store, todo_id) ==
    IF todo_id \in DOMAIN store /\ store[todo_id].exists
    THEN store[todo_id] ELSE NoTodo

\* An update that writes both link columns whatever the request holds.
repo_update_both_fields(store, todo_id, previous_todo_id, next_todo_id) ==
    [store EXCEPT
       ![todo_id].previous_todo_id = previous_todo_id,
       ![todo_id].next_todo_id = next_todo_id]

\* TodoRepositoryService.update restricted to the two link columns: a field
\* of the request is written only when it is not None.
repo_update(store, todo_id, previous_todo_id, next_todo_id) ==
    [store EXCEPT
       ![todo_id].previous_todo_id =
           IF previous_todo_id # None THEN previous_todo_id ELSE @,
       ![todo_id].next_todo_id =
           IF next_todo_id # None THEN next_todo_id ELSE @]

\* TodoManagementService.update_todo: existence and owner check, then the
\* repository update.  Result: the error raised ("none" for a response)
\* and the store afterwards.
update_todo(store, todo_id, user_id, previous_todo_id, next_todo_id) ==
    LET existing_todo == get_by_id(store, todo_id) IN
    IF ~existing_todo.exists
    THEN [error |-> "NotFound", store |-> store]
    ELSE IF existing_todo.user_id # user_id
    THEN [error |-> "AccessDenied", store |-> store]
    ELSE [error |-> "none",
          store |-> repo_update(store, todo_id, previous_todo_id, next_todo_id)]

\* ----------------------------------------------------------- cycle check
CheckResult(result, visited, fetched, exhausted) ==
    [result |-> result, visited |-> visited, fetched |-> fetched,
     exhausted |-> exhausted]

\* Faulty variants of _check_circular_dependency, used to show that the
\* properties below depend on the walk.
\* ... only the self-link is tested, nothing is walked.
_check_self_link_only(store, todo_id, dependency_todo_id, visited, fetched, depth) ==
    CheckResult(todo_id = dependency_todo_id, visited, fetched, FALSE)

\* ... only the links of dependency_todo_id itself are looked at.
_check_direct_links_only(store, todo_id, dependency_todo_id, visited, fetched, depth) ==
    LET dep_todo == get_by_id(store, dependency_todo_id) IN
    CheckResult(\/ todo_id = dependency_todo_id
                \/ (dep_todo.exists /\ todo_id \in {dep_todo.previous_todo_id,
                                                     dep_todo.next_todo_id}),
                visited \cup {dependency_todo_id},
                IF todo_id = dependency_todo_id THEN fetched
                ELSE Append(fetched, dependency_todo_id), FALSE)

\* ... only next_todo_id is followed.
RECURSIVE _check_next_links_only(_, _, _, _, _, _)
_check_next_links_only(store, todo_id, dependency_todo_id, visited, fetched, depth) ==
    IF depth = 0 THEN CheckResult(FALSE, visited, fetched, TRUE)
    ELSE IF dependency_todo_id \in visited THEN CheckResult(TRUE, visited, fetched, FALSE)
    ELSE IF todo_id = dependency_todo_id THEN CheckResult(TRUE, visited, fetched, FALSE)
    ELSE
      LET visited1 == visited \cup {dependency_todo_id}
          fetched1 == Append(fetched, dependency_todo_id)
          dep_todo == get_by_id(store, dependency_todo_id)
      IN
      IF ~dep_todo.exists THEN CheckResult(FALSE, visited1, fetched1, FALSE)
      ELSE IF dep_todo.next_todo_id = None THEN CheckResult(FALSE, visited1, fetched1, FALSE)
      ELSE IF dep_todo.next_todo_id = todo_id THEN CheckResult(TRUE, visited1, fetched1, FALSE)
      ELSE _check_next_links_only(store, todo_id, dep_todo.next_todo_id,
                                  visited1, fetched1, depth - 1)

\* ... the test todo_id == dependency_todo_id is missing.
RECURSIVE _check_without_self_test(_, _, _, _, _, _)
_check_without_self_test(store, todo_id, dependency_todo_id, visited, fetched, depth) ==
    IF depth = 0 THEN CheckResult(FALSE, visited, fetched, TRUE)
    ELSE IF dependency_todo_id \in visited THEN CheckResult(TRUE, visited, fetched, FALSE)
    ELSE
      LET visited1 == visited \cup {dependency_todo_id}
          fetched1 == Append(fetched, dependency_todo_id)
          dep_todo == get_by_id(store, dependency_todo_id)
      IN
      IF ~dep_todo.exists THEN CheckResult(FALSE, visited1, fetched1, FALSE)
      ELSE
        LET prev == dep_todo.previous_todo_id
            next == dep_todo.next_todo_id
            viaPrev ==
              IF prev = None THEN CheckResult(FALSE, visited1, fetched1, FALSE)
              ELSE IF prev = todo_id THEN CheckResult(TRUE, visited1, fetched1, FALSE)
              ELSE _check_without_self_test(store, todo_id, prev, visited1, fetched1, depth - 1)
        IN
        IF viaPrev.result \/ viaPrev.exhausted THEN viaPrev
        ELSE IF next = None THEN CheckResult(FALSE, viaPrev.visited, viaPrev.fetched, FALSE)
        ELSE IF next = todo_id THEN CheckResult(TRUE, viaPrev.visited, viaPrev.fetched, FALSE)
        ELSE _check_without_self_test(store, todo_id, next, viaPrev.visited,
                                      viaPrev.fetched, depth - 1)

\* ... the visited set is never consulted.
RECURSIVE _check_without_visited(_, _, _, _, _, _)
_check_without_visited(store, todo_id, dependency_todo_id, visited, fetched, depth) ==
    IF depth = 0 THEN CheckResult(FALSE, visited, fetched, TRUE)
    ELSE IF todo_id = dependency_todo_id THEN CheckResult(TRUE, visited, fetched, FALSE)
    ELSE
      LET visited1 == visited \cup {dependency_todo_id}
          fetched1 == Append(fetched, dependency_todo_id)
          dep_todo == get_by_id(store, dependency_todo_id)
      IN
      IF ~dep_todo.exists THEN CheckResult(FALSE, visited1, fetched1, FALSE)
      ELSE
        LET prev == dep_todo.previous_todo_id
            next == dep_todo.next_todo_id
            viaPrev ==
              IF prev = None THEN CheckResult(FALSE, visited1, fetched1, FALSE)
              ELSE IF prev = todo_id THEN CheckResult(TRUE, visited1, fetched1, FALSE)
              ELSE _check_without_visited(store, todo_id, prev, visited1, fetched1, depth - 1)
        IN
        IF viaPrev.result \/ viaPrev.exhausted THEN viaPrev
        ELSE IF next = None THEN CheckResult(FALSE, viaPrev.visited, viaPrev.fetched, FALSE)
        ELSE IF next = todo_id THEN CheckResult(TRUE, viaPrev.visited, viaPrev.fetched, FALSE)
        ELSE _check_without_visited(store, todo_id, next, viaPrev.visited,
                                    viaPrev.fetched, depth - 1)

\* _check_circular_dependency: depth-first walk from dependency_todo_id
\* over both link fields, one visited set shared by the whole recursion.
\* fetched is the sequence of get_by_id calls; exhausted tells that the
\* recursion went deeper than `depth` allows.
RECURSIVE _check_circular_dependency(_, _, _, _, _, _)
_check_circular_dependency(store, todo_id, dependency_todo_id, visited, fetched, depth) ==
    IF depth = 0 THEN CheckResult(FALSE, visited, fetched, TRUE)
    ELSE IF dependency_todo_id \in visited THEN CheckResult(TRUE, visited, fetched, FALSE)
    ELSE IF todo_id = dependency_todo_id THEN CheckResult(TRUE, visited, fetched, FALSE)
    ELSE
      LET visited1 == visited \cup {dependency_todo_id}
          fetched1 == Append(fetched, dependency_todo_id)
          dep_todo == get_by_id(store, dependency_todo_id)
      IN
      IF ~dep_todo.exists THEN CheckResult(FALSE, visited1, fetched1, FALSE)
      ELSE
        LET prev == dep_todo.previous_todo_id
            next == dep_todo.next_todo_id
            viaPrev ==
              IF prev = None THEN CheckResult(FALSE, visited1, fetched1, FALSE)
              ELSE IF prev = todo_id THEN CheckResult(TRUE, visited1, fetched1, FALSE)
              ELSE _check_circular_dependency(store, todo_id, prev, visited1, fetched1, depth - 1)
        IN
        IF viaPrev.result \/ viaPrev.exhausted THEN viaPrev
        ELSE IF next = None THEN CheckResult(FALSE, viaPrev.visited, viaPrev.fetched, FALSE)
        ELSE IF next = todo_id THEN CheckResult(TRUE, viaPrev.visited, viaPrev.fetched, FALSE)
        ELSE _check_circular_dependency(store, todo_id, next, viaPrev.visited,
                                        viaPrev.fetched, depth - 1)

\* ------------------------------------------------------ dependency calls
\* The response record of every call: the error raised ("none" when the
\* call returned a response), the store afterwards, the fields of the
\* response, and the get_by_id calls of each walk the call made.
Outcome(error, store) ==
    [error |-> error, store |-> store,
     is_valid |-> FALSE, has_circular_dependency |-> FALSE, chain_length |-> 0,
     chain |-> <<>>, total_todos |-> 0,
     walks |-> <<>>, exhausted |-> FALSE]

\* set_dependency that tests the type after the cycle check.
set_dependency_type_checked_last(store, todo_id, dependency_type, dependency_todo_id, user_id) ==
    LET todo_dto == get_by_id(store, todo_id)
        dependency_todo_dto == get_by_id(store, dependency_todo_id)
        check == _check_circular_dependency(store, todo_id, dependency_todo_id,
                                            {}, <<>>, WalkLimit)
        updated ==
          IF dependency_type = "previous"
          THEN update_todo(store, todo_id, user_id, dependency_todo_id, None)
          ELSE update_todo(store, todo_id, user_id, None, dependency_todo_id)
    IN
    IF ~todo_dto.exists THEN Outcome("NotFound", store)
    ELSE IF todo_dto.user_id # user_id THEN Outcome("AccessDenied", store)
    ELSE IF ~dependency_todo_dto.exists THEN Outcome("NotFound", store)
    ELSE IF dependency_todo_dto.user_id # user_id THEN Outcome("AccessDenied", store)
    ELSE IF check.result
    THEN [Outcome("CircularDependency", store) EXCEPT !.walks = <<check.fetched>>]
    ELSE IF dependency_type \notin DependencyTypes THEN Outcome("InvalidDependency", store)
    ELSE [Outcome(updated.error, updated.store) EXCEPT !.walks = <<check.fetched>>]

\* set_dependency without its cycle check.
set_dependency_unchecked_cycle(store, todo_id, dependency_type, dependency_todo_id, user_id) ==
    LET todo_dto == get_by_id(store, todo_id)
        dependency_todo_dto == get_by_id(store, dependency_todo_id)
        updated ==
          IF dependency_type = "previous"
          THEN update_todo(store, todo_id, user_id, dependency_todo_id, None)
          ELSE update_todo(store, todo_id, user_id, None, dependency_todo_id)
    IN
    IF ~todo_dto.exists THEN Outcome("NotFound", store)
    ELSE IF todo_dto.user_id # user_id THEN Outcome("AccessDenied", store)
    ELSE IF ~dependency_todo_dto.exists THEN Outcome("NotFound", store)
    ELSE IF dependency_todo_dto.user_id # user_id THEN Outcome("AccessDenied", store)
    ELSE IF dependency_type \notin DependencyTypes THEN Outcome("InvalidDependency", store)
    ELSE Outcome(updated.error, updated.store)

\* Faulty variant of set_dependency: the owner of the dependency todo is
\* not compared with the requester.
set_dependency_unchecked_target(store, todo_id, dependency_type, dependency_todo_id, user_id) ==
    LET todo_dto == get_by_id(store, todo_id)
        dependency_todo_dto == get_by_id(store, dependency_todo_id)
        check == _check_circular_dependency(store, todo_id, dependency_todo_id,
                                            {}, <<>>, WalkLimit)
        updated ==
          IF dependency_type = "previous"
          THEN update_todo(store, todo_id, user_id, dependency_todo_id, None)
          ELSE update_todo(store, todo_id, user_id, None, dependency_todo_id)
    IN
    IF ~todo_dto.exists THEN Outcome("NotFound", store)
    ELSE IF todo_dto.user_id # user_id THEN Outcome("AccessDenied", store)
    ELSE IF ~dependency_todo_dto.exists THEN Outcome("NotFound", store)
    ELSE IF dependency_type \notin DependencyTypes THEN Outcome("InvalidDependency", store)
    ELSE IF check.exhausted
    THEN [Outcome("RecursionError", store) EXCEPT
            !.walks = <<check.fetched>>, !.exhausted = TRUE]
    ELSE IF check.result
    THEN [Outcome("CircularDependency", store) EXCEPT !.walks = <<check.fetched>>]
    ELSE [Outcome(updated.error, updated.store) EXCEPT !.walks = <<check.fetched>>]

\* TodoDependencyManagementService.set_dependency
\* set_dependency with a cycle check that walks the graph for a 'next'
\* link only, and tests a 'previous' link for the self-link alone.
set_dependency_typed_cycle(store, todo_id, dependency_type, dependency_todo_id, user_id) ==
    LET todo_dto == get_by_id(store, todo_id)
        dependency_todo_dto == get_by_id(store, dependency_todo_id)
        check ==
          IF dependency_type = "previous"
          THEN _check_self_link_only(store, todo_id, dependency_todo_id,
                                     {}, <<>>, WalkLimit)
          ELSE _check_circular_dependency(store, todo_id, dependency_todo_id,
                                          {}, <<>>, WalkLimit)
        updated ==
          IF dependency_type = "previous"
          THEN update_todo(store, todo_id, user_id, dependency_todo_id, None)
          ELSE update_todo(store, todo_id, user_id, None, dependency_todo_id)
    IN
    IF ~todo_dto.exists THEN Outcome("NotFound", store)
    ELSE IF todo_dto.user_id # user_id THEN Outcome("AccessDenied", store)
    ELSE IF ~dependency_todo_dto.exists THEN Outcome("NotFound", store)
    ELSE IF dependency_todo_dto.user_id # user_id THEN Outcome("AccessDenied", store)
    ELSE IF dependency_type \notin DependencyTypes THEN Outcome("InvalidDependency", store)
    ELSE IF check.result
    THEN [Outcome("CircularDependency", store) EXCEPT !.walks = <<check.fetched>>]
    ELSE [Outcome(updated.error, updated.store) EXCEPT !.walks = <<check.fetched>>]

set_dependency(store, todo_id, dependency_type, dependency_todo_id, user_id) ==
    LET todo_dto == get_by_id(store, todo_id)
        dependency_todo_dto == get_by_id(store, dependency_todo_id)
        check == _check_circular_dependency(store, todo_id, dependency_todo_id,
                                            {}, <<>>, WalkLimit)
        updated ==
          IF dependency_type = "previous"
          THEN update_todo(store, todo_id, user_id, dependency_todo_id, None)
          ELSE update_todo(store, todo_id, user_id, None, dependency_todo_id)
    IN
    IF ~todo_dto.exists THEN Outcome("NotFound", store)
    ELSE IF todo_dto.user_id # user_id THEN Outcome("AccessDenied", store)
    ELSE IF ~dependency_todo_dto.exists THEN Outcome("NotFound", store)
    ELSE IF dependency_todo_dto.user_id # user_id THEN Outcome("AccessDenied", store)
    ELSE IF dependency_type \notin DependencyTypes THEN Outcome("InvalidDependency", store)
    ELSE IF check.exhausted
    THEN [Outcome("RecursionError", store) EXCEPT
            !.walks = <<check.fetched>>, !.exhausted = TRUE]
    ELSE IF check.result
    THEN [Outcome("CircularDependency", store) EXCEPT !.walks = <<check.fetched>>]
    ELSE [Outcome(updated.error, updated.store) EXCEPT !.walks = <<check.fetched>>]

\* TodoDependencyManagementService.remove_dependency: the update request
\* carries None in the field to clear.
remove_dependency(store, todo_id, dependency_type, user_id) ==
    LET todo_dto == get_by_id(store, todo_id)
        updated == update_todo(store, todo_id, user_id, None, None)
    IN
    IF ~todo_dto.exists THEN Outcome("NotFound", store)
    ELSE IF todo_dto.user_id # user_id THEN Outcome("AccessDenied", store)
    ELSE IF dependency_type \notin DependencyTypes THEN Outcome("InvalidDependency", store)
    ELSE Outcome(updated.error, updated.store)

\* ------------------------------------------------------- validation walk
\* The link field a walk follows.
Link(todo, field) ==
    IF field = "previous" THEN todo.previous_todo_id ELSE todo.next_todo_id

WalkResult(circular, visited, fetched, exhausted) ==
    [circular |-> circular, visited |-> visited, fetched |-> fetched,
     exhausted |-> exhausted]

\* One of the two while loops of validate_dependency ("Follow previous
\* chain", "Follow next chain"), entered at its loop test; budget is the
\* number of iterations observed.
RECURSIVE validate_walk(_, _, _, _, _, _)
validate_walk(store, field, current_todo_id, visited, fetched, budget) ==
    IF current_todo_id = None \/ current_todo_id \in visited
    THEN WalkResult(FALSE, visited, fetched, FALSE)
    ELSE IF budget = 0 THEN WalkResult(FALSE, visited, fetched, TRUE)
    ELSE
      LET visited1 == visited \cup {current_todo_id}
          fetched1 == Append(fetched, current_todo_id)
          current_todo == get_by_id(store, current_todo_id)
      IN
      IF ~current_todo.exists THEN WalkResult(FALSE, visited1, fetched1, FALSE)
      ELSE IF Link(current_todo, field) = None
      THEN WalkResult(FALSE, visited1, fetched1, FALSE)
      ELSE IF Link(current_todo, field) \in visited1
      THEN WalkResult(TRUE, visited1, fetched1, FALSE)
      ELSE validate_walk(store, field, Link(current_todo, field),
                         visited1, fetched1, budget - 1)

\* Faulty variant of validate_dependency: has_circular is reset together
\* with the visited set, so only the next walk decides.
validate_dependency_next_only(store, todo_id, user_id) ==
    LET todo_dto == get_by_id(store, todo_id)
        previous_walk == validate_walk(store, "previous", todo_id, {}, <<>>, WalkLimit)
        next_walk == validate_walk(store, "next", todo_id, {}, <<>>, WalkLimit)
        has_circular == next_walk.circular
    IN
    IF ~todo_dto.exists THEN Outcome("NotFound", store)
    ELSE IF todo_dto.user_id # user_id THEN Outcome("AccessDenied", store)
    ELSE [Outcome("none", store) EXCEPT
            !.is_valid = ~has_circular,
            !.has_circular_dependency = has_circular,
            !.chain_length = IF has_circular THEN 0 ELSE Cardinality(next_walk.visited),
            !.walks = <<previous_walk.fetched, next_walk.fetched>>,
            !.exhausted = previous_walk.exhausted \/ next_walk.exhausted]

\* TodoDependencyManagementService.validate_dependency: the previous walk,
\* visited.clear(), the next walk; chain_length is the size of the visited
\* set as the second walk left it.
\* validate_dependency without its ownership test.
validate_dependency_owner_unchecked(store, todo_id, user_id) ==
    LET todo_dto == get_by_id(store, todo_id)
        previous_walk == validate_walk(store, "previous", todo_id, {}, <<>>, WalkLimit)
        next_walk == validate_walk(store, "next", todo_id, {}, <<>>, WalkLimit)
        has_circular == previous_walk.circular \/ next_walk.circular
    IN
    IF ~todo_dto.exists THEN Outcome("NotFound", store)
    ELSE [Outcome("none", store) EXCEPT
            !.is_valid = ~has_circular,
            !.has_circular_dependency = has_circular,
            !.chain_length = IF has_circular THEN 0 ELSE Cardinality(next_walk.visited),
            !.walks = <<previous_walk.fetched, next_walk.fetched>>,
            !.exhausted = previous_walk.exhausted \/ next_walk.exhausted]

validate_dependency(store, todo_id, user_id) ==
    LET todo_dto == get_by_id(store, todo_id)
        previous_walk == validate_walk(store, "previous", todo_id, {}, <<>>, WalkLimit)
        next_walk == validate_walk(store, "next", todo_id, {}, <<>>, WalkLimit)
        has_circular == previous_walk.circular \/ next_walk.circular
    IN
    IF ~todo_dto.exists THEN Outcome("NotFound", store)
    ELSE IF todo_dto.user_id # user_id THEN Outcome("AccessDenied", store)
    ELSE [Outcome("none", store) EXCEPT
            !.is_valid = ~has_circular,
            !.has_circular_dependency = has_circular,
            !.chain_length = IF has_circular THEN 0 ELSE Cardinality(next_walk.visited),
            !.walks = <<previous_walk.fetched, next_walk.fetched>>,
            !.exhausted = previous_walk.exhausted \/ next_walk.exhausted]

\* ------------------------------------------------------------ chain walk
\* The names the interface package of the dependency service binds: the
\* DTOs and exceptions its __init__ imports.  DependencyNode is defined in
\* interface/dataclasses.py and is not among them.
InterfaceExports ==
    {"SetDependencyRequest", "SetDependencyResponse",
     "RemoveDependencyRequest", "RemoveDependencyResponse",
     "ValidateDependencyRequest", "ValidateDependencyResponse",
     "GetDependencyChainRequest", "GetDependencyChainResponse",
     "TodoNotFoundByIdException", "TodoAccessDeniedException",
     "CircularDependencyException", "InvalidDependencyException"}

ChainResult(chain, visited, fetched, exhausted) ==
    [chain |-> chain, visited |-> visited, fetched |-> fetched,
     exhausted |-> exhausted]

\* One of the two while loops of get_dependency_chain, entered at its loop
\* test: the previous walk inserts at the front, the next walk appends.
RECURSIVE chain_walk(_, _, _, _, _, _, _)
chain_walk(store, field, current_todo_id, visited, chain, fetched, budget) ==
    IF current_todo_id = None \/ current_todo_id \in visited
    THEN ChainResult(chain, visited, fetched, FALSE)
    ELSE IF budget = 0 THEN ChainResult(chain, visited, fetched, TRUE)
    ELSE
      LET visited1 == visited \cup {current_todo_id}
          fetched1 == Append(fetched, current_todo_id)
          current_todo == get_by_id(store, current_todo_id)
          chain1 == IF field = "previous" THEN <<current_todo_id>> \o chain
                    ELSE Append(chain, current_todo_id)
      IN
      IF ~current_todo.exists THEN ChainResult(chain, visited1, fetched1, FALSE)
      ELSE chain_walk(store, field, Link(current_todo, field),
                      visited1, chain1, fetched1, budget - 1)

\* TodoDependencyManagementService.get_dependency_chain.  The first chain
\* entry is built with interface.DependencyNode, an attribute lookup on the
\* interface package.  A chain entry is represented by its todo_id.
get_dependency_chain(store, todo_id, user_id, direction) ==
    LET todo_dto == get_by_id(store, todo_id)
        previous_walk ==
          IF direction \in {"previous", "both"}
          THEN chain_walk(store, "previous", todo_dto.previous_todo_id,
                          {todo_id}, <<todo_id>>, <<>>, WalkLimit)
          ELSE ChainResult(<<todo_id>>, {todo_id}, <<>>, FALSE)
        next_walk ==
          IF direction \in {"next", "both"}
          THEN chain_walk(store, "next", todo_dto.next_todo_id,
                          previous_walk.visited, previous_walk.chain, <<>>, WalkLimit)
          ELSE ChainResult(previous_walk.chain, previous_walk.visited, <<>>, FALSE)
    IN
    IF ~todo_dto.exists THEN Outcome("NotFound", store)
    ELSE IF todo_dto.user_id # user_id THEN Outcome("AccessDenied", store)
    ELSE IF "DependencyNode" \notin InterfaceExports
    THEN Outcome("AttributeError", store)
    ELSE [Outcome("none", store) EXCEPT
            !.chain = next_walk.chain,
            !.total_todos = Len(next_walk.chain),
            !.walks = <<previous_walk.fetched, next_walk.fetched>>,
            !.exhausted = previous_walk.exhausted \/ next_walk.exhausted]

\* --------------------------------------------------------- project store
\* projects is the table in id order: the AutoField gives row n the id n and
\* a deleted row leaves its id unused.  members is the set of rows of the
\* project_members table.
NoProject == [exists |-> FALSE, owner_id |-> None, is_private |-> FALSE, name |-> ""]

NoMember == [project_id |-> None, user_id |-> None, role |-> ""]

\* ProjectRepositoryService.get_by_id: the row, or NoProject for None.
project_get_by_id(table, project_id) ==
    IF project_id \in 1..Len(table) /\ table[project_id].exists
    THEN table[project_id]
    ELSE NoProject

\* ProjectRepositoryService.create: the table with the new row appended.
project_create(table, name, is_private, owner_id) ==
    Append(table, [exists |-> TRUE, owner_id |-> owner_id, is_private |-> is_private,
                   name |-> name])

\* ProjectRepositoryService.update of an existing row.  An Optional field
\* of the request is the empty set for None and {v} for the value v.
project_update(table, project_id, name, is_private) ==
    LET project == table[project_id]
        named == IF name # {}
                 THEN [project EXCEPT !.name = CHOOSE v \in name : TRUE]
                 ELSE project IN
    [table EXCEPT ![project_id] =
        IF is_private # {}
        THEN [named EXCEPT !.is_private = CHOOSE v \in is_private : TRUE]
        ELSE named]

\* ProjectRepositoryService.delete of an existing row.
project_delete(table, project_id) ==
    [table EXCEPT ![project_id] = NoProject]

\* ProjectRepositoryService.get_member: the row, or NoMember for None.
get_member(rows, project_id, user_id) ==
    LET found == {m \in rows : m.project_id = project_id /\ m.user_id = user_id} IN
    IF found = {} THEN NoMember ELSE CHOOSE m \in found : TRUE

\* ProjectRepositoryService.create_member.
create_member(rows, project_id, user_id, role) ==
    IF \E m \in rows : m.project_id = project_id /\ m.user_id = user_id
    THEN [error |-> "ProjectMemberAlreadyExists", members |-> rows]
    ELSE [error |-> "none",
          members |-> rows \cup {[project_id |-> project_id, user_id |-> user_id,
                                  role |-> role]}]

\* ProjectRepositoryService.update_member of an existing row.
update_member(rows, project_id, user_id, role) ==
    {IF m.project_id = project_id /\ m.user_id = user_id
     THEN [m EXCEPT !.role = role] ELSE m : m \in rows}

\* ProjectRepositoryService.delete_member of an existing row.
delete_member(rows, project_id, user_id) ==
    {m \in rows : ~(m.project_id = project_id /\ m.user_id = user_id)}

\* The sets of count rows that a page of the others can leave out.
RECURSIVE Beyond(_, _)
Beyond(matching, count) ==
    IF count = 0
    THEN {{}}
    ELSE UNION {{rest \cup {m} : rest \in Beyond(matching \ {m}, count - 1)} :
                m \in matching}

\* ProjectRepositoryService.get_members filtered by project_id: the pages
\* the query can return, each holding the first DefaultLimit rows of some
\* order of the project's rows.
get_members(rows, project_id) ==
    LET matching == {m \in rows : m.project_id = project_id} IN
    IF Cardinality(matching) <= DefaultLimit
    THEN {matching}
    ELSE {matching \ rest :
            rest \in Beyond(matching, Cardinality(matching) - DefaultLimit)}

ProjectOutcome(error, table, rows, project_id) ==
    [error |-> error, projects |-> table, members |-> rows, project_id |-> project_id]

\* create_project that enrols the owner with the default role.
create_project_default_role(table, rows, name, is_private, owner_id) ==
    IF name = ""
    THEN ProjectOutcome("ProjectNameRequired", table, rows, None)
    ELSE LET created == project_create(table, name, is_private, owner_id)
             project_id == Len(created)
             member == create_member(rows, project_id, owner_id, "Member") IN
         IF member.error # "none"
         THEN ProjectOutcome(member.error, created, rows, None)
         ELSE ProjectOutcome("none", created, member.members, project_id)

\* ProjectManagementService.create_project.
create_project(table, rows, name, is_private, owner_id) ==
    IF name = ""
    THEN ProjectOutcome("ProjectNameRequired", table, rows, None)
    ELSE LET created == project_create(table, name, is_private, owner_id)
             project_id == Len(created)
             member == create_member(rows, project_id, owner_id, "Owner") IN
         IF member.error # "none"
         THEN ProjectOutcome(member.error, created, rows, None)
         ELSE ProjectOutcome("none", created, member.members, project_id)

\* The owner, or a member whose role is Owner or Admin.
CanManageMembers(table, rows, project_id, user_id) ==
    \/ project_get_by_id(table, project_id).owner_id = user_id
    \/ get_member(rows, project_id, user_id).role \in {"Owner", "Admin"}

\* ProjectManagementService.add_member.
add_member(table, rows, project_id, user_id, new_user_id, role) ==
    IF ~project_get_by_id(table, project_id).exists
    THEN ProjectOutcome("ProjectNotFoundById", table, rows, project_id)
    ELSE IF ~CanManageMembers(table, rows, project_id, user_id)
    THEN ProjectOutcome("ProjectAccessDenied", table, rows, project_id)
    ELSE LET member == create_member(rows, project_id, new_user_id, role) IN
         ProjectOutcome(member.error, table, member.members, project_id)

\* remove_member without the test that keeps the owner's row.
remove_member_owner_unguarded(table, rows, project_id, user_id, remove_user_id) ==
    IF ~project_get_by_id(table, project_id).exists
    THEN ProjectOutcome("ProjectNotFoundById", table, rows, project_id)
    ELSE IF ~CanManageMembers(table, rows, project_id, user_id)
    THEN ProjectOutcome("ProjectAccessDenied", table, rows, project_id)
    ELSE IF get_member(rows, project_id, remove_user_id) = NoMember
    THEN ProjectOutcome("ProjectMemberNotFound", table, rows, project_id)
    ELSE ProjectOutcome("none", table,
                        delete_member(rows, project_id, remove_user_id), project_id)

\* ProjectManagementService.remove_member.
remove_member(table, rows, project_id, user_id, remove_user_id) ==
    IF ~project_get_by_id(table, project_id).exists
    THEN ProjectOutcome("ProjectNotFoundById", table, rows, project_id)
    ELSE IF ~CanManageMembers(table, rows, project_id, user_id)
    THEN ProjectOutcome("ProjectAccessDenied", table, rows, project_id)
    ELSE IF project_get_by_id(table, project_id).owner_id = remove_user_id
    THEN ProjectOutcome("ProjectAccessDenied", table, rows, project_id)
    ELSE IF get_member(rows, project_id, remove_user_id) = NoMember
    THEN ProjectOutcome("ProjectMemberNotFound", table, rows, project_id)
    ELSE ProjectOutcome("none", table,
                        delete_member(rows, project_id, remove_user_id), project_id)

\* ProjectManagementService.update_member_role.
update_member_role(table, rows, project_id, user_id, update_user_id, new_role) ==
    IF ~project_get_by_id(table, project_id).exists
    THEN ProjectOutcome("ProjectNotFoundById", table, rows, project_id)
    ELSE IF project_get_by_id(table, project_id).owner_id # user_id
    THEN ProjectOutcome("ProjectAccessDenied", table, rows, project_id)
    ELSE IF project_get_by_id(table, project_id).owner_id = update_user_id
    THEN ProjectOutcome("ProjectAccessDenied", table, rows, project_id)
    ELSE IF get_member(rows, project_id, update_user_id) = NoMember
    THEN ProjectOutcome("ProjectMemberNotFound", table, rows, project_id)
    ELSE ProjectOutcome("none", table,
                        update_member(rows, project_id, update_user_id, new_role),
                        project_id)

\* get_project_by_id that lets only the owner into a private project.
get_project_by_id_owner_only(table, rows, project_id, user_id) ==
    LET project_dto == project_get_by_id(table, project_id) IN
    IF ~project_dto.exists
    THEN ProjectOutcome("ProjectNotFoundById", table, rows, project_id)
    ELSE IF project_dto.is_private /\ project_dto.owner_id # user_id
    THEN ProjectOutcome("ProjectAccessDenied", table, rows, project_id)
    ELSE ProjectOutcome("none", table, rows, project_id)

\* ProjectManagementService.get_project_by_id.
get_project_by_id(table, rows, project_id, user_id) ==
    LET project_dto == project_get_by_id(table, project_id) IN
    IF ~project_dto.exists
    THEN ProjectOutcome("ProjectNotFoundById", table, rows, project_id)
    ELSE IF /\ project_dto.is_private
            /\ project_dto.owner_id # user_id
            /\ get_member(rows, project_id, user_id) = NoMember
    THEN ProjectOutcome("ProjectAccessDenied", table, rows, project_id)
    ELSE ProjectOutcome("none", table, rows, project_id)

\* update_project that lets every member in.
update_project_any_member(table, rows, project_id, user_id, name, is_private) ==
    IF ~project_get_by_id(table, project_id).exists
    THEN ProjectOutcome("ProjectNotFoundById", table, rows, project_id)
    ELSE IF /\ project_get_by_id(table, project_id).owner_id # user_id
            /\ get_member(rows, project_id, user_id) = NoMember
    THEN ProjectOutcome("ProjectAccessDenied", table, rows, project_id)
    ELSE ProjectOutcome("none", project_update(table, project_id, name, is_private),
                        rows, project_id)

\* ProjectManagementService.update_project.
update_project(table, rows, project_id, user_id, name, is_private) ==
    IF ~project_get_by_id(table, project_id).exists
    THEN ProjectOutcome("ProjectNotFoundById", table, rows, project_id)
    ELSE IF /\ project_get_by_id(table, project_id).owner_id # user_id
            /\ get_member(rows, project_id, user_id).role \notin {"Owner", "Admin"}
    THEN ProjectOutcome("ProjectAccessDenied", table, rows, project_id)
    ELSE ProjectOutcome("none", project_update(table, project_id, name, is_private),
                        rows, project_id)

\* ProjectManagementService.delete_project; page is what get_members
\* returned for the project.
delete_project(table, rows, project_id, user_id, page) ==
    IF ~project_get_by_id(table, project_id).exists
    THEN ProjectOutcome("ProjectNotFoundById", table, rows, project_id)
    ELSE IF project_get_by_id(table, project_id).owner_id # user_id
    THEN ProjectOutcome("ProjectAccessDenied", table, rows, project_id)
    ELSE ProjectOutcome("none", project_delete(table, project_id),
                        rows \ page, project_id)

\* ------------------------------------------------------------------ state
Idle ==
    [op |-> "idle", todo_id |-> None, dependency_type |-> "",
     dependency_todo_id |-> None, user_id |-> None, direction |-> "",
     previous_todo_id |-> None, next_todo_id |-> None,
     out |-> Outcome("none", <<>>), pre |-> <<>>]

Called(op, todo_id, dependency_type, dependency_todo_id, user_id, direction, out, pre) ==
    [op |-> op, todo_id |-> todo_id, dependency_type |-> dependency_type,
     dependency_todo_id |-> dependency_todo_id, user_id |-> user_id,
     direction |-> direction, previous_todo_id |-> None, next_todo_id |-> None,
     out |-> [out EXCEPT !.store = <<>>], pre |-> pre]

\* Number of non-null link fields of the table.
LinkCount(store) ==
    Cardinality({t \in DOMAIN store : store[t].previous_todo_id # None})
    + Cardinality({t \in DOMAIN store : store[t].next_todo_id # None})

\* A call is issued when no response is pending, and only while at most
\* MaxLinks link fields are set.
CanCall == last.op = "idle" /\ LinkCount(todos) <= MaxLinks

\* The todo CRUD subsystem has created todos 1..NumTodos without links:
\* the last one for either user, the others for user 1.
Init ==
    /\ \E owner \in Users :
         todos = [t \in TodoIds |->
                    [exists |-> TRUE, user_id |-> IF t = NumTodos THEN owner ELSE 1,
                     previous_todo_id |-> None, next_todo_id |-> None]]
    /\ projects = <<>>
    /\ members = {}
    /\ reminders = <<>>
    /\ deliveries = [reminder_id \in 1..NumReminders |-> 0]
    /\ last = Idle

SetDependency ==
    /\ CanCall
    /\ \E todo_id \in AnyTodoId, dependency_type \in RequestTypes,
          dependency_todo_id \in AnyTodoId, user_id \in Users :
         LET out == set_dependency(todos, todo_id, dependency_type,
                                   dependency_todo_id, user_id) IN
         /\ todos' = out.store
         /\ UNCHANGED <<projects, members, reminders, deliveries>>
         /\ last' = Called("set_dependency", todo_id, dependency_type,
                           dependency_todo_id, user_id, "", out, todos)

RemoveDependency ==
    /\ CanCall
    /\ \E todo_id \in AnyTodoId, dependency_type \in RequestTypes, user_id \in Users :
         LET out == remove_dependency(todos, todo_id, dependency_type, user_id) IN
         /\ todos' = out.store
         /\ UNCHANGED <<projects, members, reminders, deliveries>>
         /\ last' = Called("remove_dependency", todo_id, dependency_type,
                           None, user_id, "", out, todos)

ValidateDependency ==
    /\ CanCall
    /\ \E todo_id \in AnyTodoId, user_id \in Users :
         LET out == validate_dependency(todos, todo_id, user_id) IN
         /\ todos' = out.store
         /\ UNCHANGED <<projects, members, reminders, deliveries>>
         /\ last' = Called("validate_dependency", todo_id, "", None, user_id,
                           "", out, todos)

GetDependencyChain ==
    /\ CanCall
    /\ \E todo_id \in AnyTodoId, user_id \in Users, direction \in RequestDirections :
         LET out == get_dependency_chain(todos, todo_id, user_id, direction) IN
         /\ todos' = out.store
         /\ UNCHANGED <<projects, members, reminders, deliveries>>
         /\ last' = Called("get_dependency_chain", todo_id, "", None, user_id,
                           direction, out, todos)

\* TodoManagementService.update_todo called directly (PUT on a todo) with
\* one of the two link fields in the request, holding any id.
UpdateTodo ==
    /\ CanCall
    /\ \E todo_id \in AnyTodoId, user_id \in Users,
          field \in DependencyTypes, link \in AnyTodoId :
         LET previous_todo_id == IF field = "previous" THEN link ELSE None
             next_todo_id == IF field = "next" THEN link ELSE None
             updated == update_todo(todos, todo_id, user_id,
                                    previous_todo_id, next_todo_id) IN
         /\ todos' = updated.store
         /\ UNCHANGED <<projects, members, reminders, deliveries>>
         /\ last' = [Called("update_todo", todo_id, "", None, user_id, "",
                            Outcome(updated.error, updated.store), todos)
                       EXCEPT !.previous_todo_id = previous_todo_id,
                              !.next_todo_id = next_todo_id]

\* The presentation layer returns the response to the caller.
Return ==
    /\ last.op # "idle"
    /\ last' = Idle
    /\ UNCHANGED <<todos, projects, members, reminders, deliveries>>

\* The dependency service alone, on a store that starts without links.
Next ==
    \/ SetDependency
    \/ RemoveDependency
    \/ ValidateDependency
    \/ GetDependencyChain
    \/ Return

Spec == Init /\ [][Next]_vars

\* The dependency service next to the todo CRUD service, whose update_todo
\* writes link fields without any check of the graph.
NextStore == Next \/ UpdateTodo

SpecStore == Init /\ [][NextStore]_vars

\* ------------------------------------------------------ project requests
\* An id that no row of the projects table can have.
MaxProjectId == NumProjects + 1
AnyProjectId == 1..MaxProjectId

ProjectCalled(op, project_id, user_id, other_user_id, role, out) ==
    [op |-> op, project_id |-> project_id, user_id |-> user_id,
     other_user_id |-> other_user_id, role |-> role,
     out |-> [error |-> out.error, project_id |-> out.project_id],
     pre |-> [projects |-> projects, members |-> members]]

ProjectIdle == last.op = "idle"

CreateProject ==
    /\ ProjectIdle
    /\ Len(projects) < NumProjects
    /\ \E name \in ProjectNames, is_private \in BOOLEAN, owner_id \in ProjectUsers :
         LET out == create_project(projects, members, name, is_private, owner_id) IN
         /\ projects' = out.projects
         /\ members' = out.members
         /\ last' = ProjectCalled("create_project", None, owner_id, None, "", out)
    /\ UNCHANGED <<todos, reminders, deliveries>>

AddMember ==
    /\ ProjectIdle
    /\ \E project_id \in AnyProjectId, user_id \in ProjectUsers,
          new_user_id \in ProjectUsers, role \in Roles :
         LET out == add_member(projects, members, project_id, user_id,
                               new_user_id, role) IN
         /\ projects' = out.projects
         /\ members' = out.members
         /\ last' = ProjectCalled("add_member", project_id, user_id,
                                  new_user_id, role, out)
    /\ UNCHANGED <<todos, reminders, deliveries>>

RemoveMember ==
    /\ ProjectIdle
    /\ \E project_id \in AnyProjectId, user_id \in ProjectUsers,
          remove_user_id \in ProjectUsers :
         LET out == remove_member(projects, members, project_id, user_id,
                                  remove_user_id) IN
         /\ projects' = out.projects
         /\ members' = out.members
         /\ last' = ProjectCalled("remove_member", project_id, user_id,
                                  remove_user_id, "", out)
    /\ UNCHANGED <<todos, reminders, deliveries>>

UpdateMemberRole ==
    /\ ProjectIdle
    /\ \E project_id \in AnyProjectId, user_id \in ProjectUsers,
          update_user_id \in ProjectUsers, new_role \in Roles :
         LET out == update_member_role(projects, members, project_id, user_id,
                                       update_user_id, new_role) IN
         /\ projects' = out.projects
         /\ members' = out.members
         /\ last' = ProjectCalled("update_member_role", project_id, user_id,
                                  update_user_id, new_role, out)
    /\ UNCHANGED <<todos, reminders, deliveries>>

DeleteProject ==
    /\ ProjectIdle
    /\ \E project_id \in AnyProjectId, user_id \in ProjectUsers :
         \E page \in get_members(members, project_id) :
           LET out == delete_project(projects, members, project_id, user_id, page) IN
           /\ projects' = out.projects
           /\ members' = out.members
           /\ last' = ProjectCalled("delete_project", project_id, user_id,
                                    None, "", out)
    /\ UNCHANGED <<todos, reminders, deliveries>>

\* The project service: creation, membership and deletion.
NextProject ==
    \/ CreateProject
    \/ AddMember
    \/ RemoveMember
    \/ UpdateMemberRole
    \/ DeleteProject
    \/ Return

SpecProject == Init /\ [][NextProject]_vars

\* name and is_private are Optional in the update request.
UpdateNames == {{}, {"q"}}
UpdatePrivacy == {{}, {TRUE}, {FALSE}}

GetProject ==
    /\ ProjectIdle
    /\ \E project_id \in AnyProjectId, user_id \in ProjectUsers :
         LET out == get_project_by_id(projects, members, project_id, user_id) IN
         /\ projects' = out.projects
         /\ members' = out.members
         /\ last' = ProjectCalled("get_project_by_id", project_id, user_id,
                                  None, "", out)
    /\ UNCHANGED <<todos, reminders, deliveries>>

UpdateProject ==
    /\ ProjectIdle
    /\ \E project_id \in AnyProjectId, user_id \in ProjectUsers,
          name \in UpdateNames, is_private \in UpdatePrivacy :
         LET out == update_project(projects, members, project_id, user_id,
                                   name, is_private) IN
         /\ projects' = out.projects
         /\ members' = out.members
         /\ last' = ProjectCalled("update_project", project_id, user_id,
                                  None, "", out)
    /\ UNCHANGED <<todos, reminders, deliveries>>

\* The project service with its reads and updates, next to one fixed todo
\* store.
InitAccess == Init /\ todos[NumTodos].user_id = 1

\* Reads and updates concern one project at a time: one project fewer is
\* created here than elsewhere.
NextAccess ==
    \/ CreateProject /\ Len(projects) < NumProjects - 1
    \/ AddMember
    \/ RemoveMember
    \/ UpdateMemberRole
    \/ DeleteProject
    \/ GetProject
    \/ UpdateProject
    \/ Return

SpecAccess == InitAccess /\ [][NextAccess]_vars

\* ------------------------------------------------- concurrent requests
\* Two requests served at the same time by two workers.  set_dependency
\* holds no lock and opens no transaction: its reads and checks (lines
\* 90-117) see the store of their moment, and the write it then asks of
\* update_todo sees the store of a later one.
Callers == {1, 2}

NoCall ==
    [pc |-> "idle", todo_id |-> None, dependency_type |-> "",
     dependency_todo_id |-> None, user_id |-> None, error |-> "none",
     stale |-> FALSE]

RaceCalls == IF last.op = "race" THEN last.calls ELSE [p \in Callers |-> NoCall]

RaceState(calls) == [op |-> "race", calls |-> calls]

\* The first half of set_dependency: fetch both todos, test the owners and
\* the type, run the cycle check.  A failed test ends the call.
SetDependencyCheck(p) ==
    /\ last.op \in {"idle", "race"}
    /\ RaceCalls[p].pc = "idle"
    /\ \E todo_id \in AnyTodoId, dependency_type \in DependencyTypes,
          dependency_todo_id \in AnyTodoId, user_id \in Users :
         LET out == set_dependency(todos, todo_id, dependency_type,
                                   dependency_todo_id, user_id) IN
         last' = RaceState([RaceCalls EXCEPT ![p] =
                    [pc |-> IF out.error = "none" THEN "checked" ELSE "done",
                     todo_id |-> todo_id, dependency_type |-> dependency_type,
                     dependency_todo_id |-> dependency_todo_id,
                     user_id |-> user_id, error |-> out.error, stale |-> FALSE]])
    /\ UNCHANGED <<todos, projects, members, reminders, deliveries>>

\* The second half: update_todo writes the link.  Every other call that has
\* checked and not yet written has now checked a store that is gone.
SetDependencyWrite(p) ==
    /\ last.op = "race"
    /\ last.calls[p].pc = "checked"
    /\ LET call == last.calls[p]
           updated ==
             IF call.dependency_type = "previous"
             THEN update_todo(todos, call.todo_id, call.user_id,
                              call.dependency_todo_id, None)
             ELSE update_todo(todos, call.todo_id, call.user_id,
                              None, call.dependency_todo_id) IN
       /\ todos' = updated.store
       /\ last' = RaceState([q \in Callers |->
                     IF q = p
                     THEN [call EXCEPT !.pc = "done", !.error = updated.error]
                     ELSE IF last.calls[q].pc = "checked"
                     THEN [last.calls[q] EXCEPT !.stale = TRUE]
                     ELSE last.calls[q]])
    /\ UNCHANGED <<projects, members, reminders, deliveries>>

NextRace ==
    \E p \in Callers :
        \/ SetDependencyCheck(p)
        \/ SetDependencyWrite(p)

SpecRace == Init /\ [][NextRace]_vars

\* ------------------------------------------------------ a crowded project
\* Enough users to fill more than one page of members.
CrowdUsers == 1..(DefaultLimit + 1)

\* add_member by the owner of the first project, enrolling as 'Member' the
\* least user who is not yet in it.
EnrolNext ==
    /\ ProjectIdle
    /\ project_get_by_id(projects, 1).exists
    /\ \E new_user_id \in CrowdUsers :
         /\ get_member(members, 1, new_user_id) = NoMember
         /\ \A u \in CrowdUsers :
              u < new_user_id => get_member(members, 1, u) # NoMember
         /\ LET user_id == project_get_by_id(projects, 1).owner_id
                out == add_member(projects, members, 1, user_id,
                                  new_user_id, "Member") IN
            /\ projects' = out.projects
            /\ members' = out.members
            /\ last' = ProjectCalled("add_member", 1, user_id,
                                     new_user_id, "Member", out)
    /\ UNCHANGED <<todos, reminders, deliveries>>

\* The project service on a project that fills up with members.
NextCrowd ==
    \/ CreateProject /\ Len(projects) < NumProjects - 1
    \/ EnrolNext
    \/ DeleteProject
    \/ Return

SpecCrowd == InitAccess /\ [][NextCrowd]_vars

\* -------------------------------------------------------------- reminders
\* Timestamps in milliseconds, as small numbers: the reminder_time and
\* current_time of requests, and the reading of the clock, which the calls
\* only store.
Times == {1, 2}
ClockReadings == {2}
\* The users table: user 1 has an email and a phone, user 2 an email and
\* the blank phone UserData gives a user without one; no other user exists.
ReminderUserIds == {1, 2, 3}
NoUser == [exists |-> FALSE, email |-> "", phone |-> ""]
UserRows ==
    <<[exists |-> TRUE, email |-> "a", phone |-> "p"],
      [exists |-> TRUE, email |-> "b", phone |-> ""]>>

\* UserRepositoryService.get_by_id: the row, or NoUser for None.
user_get_by_id(user_id) ==
    IF user_id \in DOMAIN UserRows THEN UserRows[user_id] ELSE NoUser

\* The channels process_reminders has a gateway for, and the
\* notification_channels lists requests carry.
Gateways == {"Email", "SMS"}
ChannelLists == {<<>>, <<"SMS">>, <<"Email", "SMS">>}

\* ReminderRepositoryService.create: the table with the new row appended.
reminder_create(table, reminder_time, notification_channels, user_id, status) ==
    Append(table,
           [status |-> status, sent_at |-> None, reminder_time |-> reminder_time,
            notification_channels |->
                IF notification_channels = <<>> THEN <<"Email">>
                ELSE notification_channels,
            user_id |-> user_id])

\* ReminderRepositoryService.update of an existing row with the fields
\* process_reminders provides: status, and sent_at as {} for None.
reminder_update(table, reminder_id, status, sent_at) ==
    [table EXCEPT ![reminder_id] =
        [table[reminder_id] EXCEPT
            !.status = status,
            !.sent_at = IF sent_at = {} THEN @ ELSE CHOOSE v \in sent_at : TRUE]]

\* get_reminders that applies no status filter.
get_reminders_any_status(table, status, reminder_time__lte) ==
    {{reminder_id \in DOMAIN table :
        reminder_time__lte = 0 \/ table[reminder_id].reminder_time <= reminder_time__lte}}

\* ReminderRepositoryService.get_reminders for a filter with status and
\* reminder_time__lte ("" and 0 are the values the code takes as absent):
\* the pages the query can return.  The filter has no offset, so BaseFilter
\* sets its limit to DefaultLimit and the page holds the DefaultLimit
\* earliest matching rows.
get_reminders(table, status, reminder_time__lte) ==
    LET matching ==
          {reminder_id \in DOMAIN table :
             /\ status = "" \/ table[reminder_id].status = status
             /\ reminder_time__lte = 0
                \/ table[reminder_id].reminder_time <= reminder_time__lte}
    IN
    IF Cardinality(matching) <= DefaultLimit
    THEN {matching}
    ELSE {page \in SUBSET matching :
            /\ Cardinality(page) = DefaultLimit
            /\ \A a \in page, b \in matching \ page :
                 table[a].reminder_time <= table[b].reminder_time}

\* ReminderManagementService.create_reminder.
create_reminder(table, reminder_time, notification_channels, user_id) ==
    reminder_create(table, reminder_time,
                    IF notification_channels = <<>> THEN <<"Email">>
                    ELSE notification_channels,
                    user_id, "Pending")

\* The channels of a reminder on which a message goes out: the gateway is
\* up (send_email / send_sms returns instead of raising) and the user has
\* the address.
delivered_channels(reminder, up) ==
    LET user_dto == user_get_by_id(reminder.user_id) IN
    {channel \in {reminder.notification_channels[i] :
                    i \in DOMAIN reminder.notification_channels} \cap up :
        \/ channel = "Email" /\ user_dto.email # ""
        \/ channel = "SMS" /\ user_dto.phone # ""}

ReminderOutcome(error, table) ==
    [error |-> error, reminders |-> table, selected |-> {}, delivered |-> {},
     sent_count |-> 0, failed_count |-> 0]

\* ReminderManagementService.process_reminders.  max_reminders is {} for
\* None; page is the page get_reminders returned; up[r] are the gateways
\* that accept the messages of reminder r; now is date_time_service.now().
process_reminders(table, max_reminders, now, page, up) ==
    IF max_reminders # {} /\ (CHOOSE v \in max_reminders : TRUE) < 1
    THEN ReminderOutcome("ValidationError", table)
    ELSE
      LET known == {r \in page : user_get_by_id(table[r].user_id).exists}
          sent == {r \in known : delivered_channels(table[r], up[r]) # {}}
      IN
      [error |-> "none",
       reminders |->
         [r \in DOMAIN table |->
            IF r \in sent THEN reminder_update(table, r, "Sent", {now})[r]
            ELSE IF r \in known THEN reminder_update(table, r, "Failed", {})[r]
            ELSE table[r]],
       selected |-> page,
       delivered |-> sent,
       sent_count |-> Cardinality(sent),
       failed_count |-> Cardinality(page \ sent)]

ReminderCalled(op, current_time, out) ==
    [op |-> op, current_time |-> current_time,
     out |-> [out EXCEPT !.reminders = <<>>], pre |-> reminders]

CreateReminder ==
    /\ last.op = "idle"
    /\ Len(reminders) < NumReminders
    /\ \E reminder_time \in Times, notification_channels \in ChannelLists,
          user_id \in ReminderUserIds :
         /\ reminders' = create_reminder(reminders, reminder_time,
                                         notification_channels, user_id)
         /\ last' = ReminderCalled("create_reminder", 0,
                                   ReminderOutcome("none", <<>>))
    /\ UNCHANGED <<todos, projects, members, deliveries>>

MaxReminders == {{0}, {1}}

ProcessReminders ==
    /\ last.op = "idle"
    /\ \A r \in DOMAIN deliveries : deliveries[r] < MaxSendingCalls
    /\ \E current_time \in {0} \cup Times, max_reminders \in MaxReminders,
          now \in ClockReadings :
         \E page \in get_reminders(reminders, "Pending", current_time) :
         \E up \in [page -> SUBSET Gateways] :
           LET out == process_reminders(reminders, max_reminders, now, page, up) IN
           /\ reminders' = out.reminders
           /\ deliveries' = [r \in DOMAIN deliveries |->
                               IF r \in out.delivered THEN deliveries[r] + 1
                               ELSE deliveries[r]]
           /\ last' = ReminderCalled("process_reminders", current_time, out)
    /\ UNCHANGED <<todos, projects, members>>

NextReminder ==
    \/ CreateReminder
    \/ ProcessReminders
    \/ Return

SpecReminder == InitAccess /\ [][NextReminder]_vars

\* =================================================================== claims
\* The link graph, stated without the service's walks: t -> t.previous_todo_id
\* and t -> t.next_todo_id for every existing todo t.
Successors(store, t) ==
    IF get_by_id(store, t).exists
    THEN {get_by_id(store, t).previous_todo_id, get_by_id(store, t).next_todo_id} \ {None}
    ELSE {}

RECURSIVE Closure(_, _)
Closure(store, ids) ==
    LET more == ids \cup UNION {Successors(store, t) : t \in ids}
    IN IF more = ids THEN ids ELSE Closure(store, more)

\* to is reachable from from in zero or more edges.
Reachable(store, from, to) == to \in Closure(store, {from})

HasCycle(store) ==
    \E t \in DOMAIN store :
        get_by_id(store, t).exists /\ t \in Closure(store, Successors(store, t))

\* The same for one link field alone.
FieldSuccessors(store, field, t) ==
    IF get_by_id(store, t).exists
    THEN {Link(get_by_id(store, t), field)} \ {None}
    ELSE {}

RECURSIVE FieldClosure(_, _, _)
FieldClosure(store, field, ids) ==
    LET more == ids \cup UNION {FieldSuccessors(store, field, t) : t \in ids}
    IN IF more = ids THEN ids ELSE FieldClosure(store, field, more)

\* Following only `field` links from t comes back to a todo already passed.
Revisits(store, field, t) ==
    \E x \in FieldClosure(store, field, {t}) :
        /\ get_by_id(store, x).exists
        /\ x \in FieldClosure(store, field, FieldSuccessors(store, field, x))

Owned(store, todo_id, user_id) ==
    get_by_id(store, todo_id).exists /\ get_by_id(store, todo_id).user_id = user_id

NoDuplicates(seq) ==
    \A i, j \in DOMAIN seq : i # j => seq[i] # seq[j]

\* C1: from a link-free store, after any sequence of set_dependency and
\* remove_dependency calls, validate_dependency called by the owner of a todo
\* (in particular of one that a successful set_dependency touched) returns a
\* response with has_circular_dependency = false and is_valid = true.
C1_ValidateAfterSet ==
    (last.op = "validate_dependency" /\ Owned(last.pre, last.todo_id, last.user_id))
    => /\ last.out.error = "none"
       /\ ~last.out.has_circular_dependency
       /\ last.out.is_valid

\* validate_dependency has answered for a todo that a successful
\* set_dependency linked to another one.
C1_Witness ==
    /\ last.op = "validate_dependency"
    /\ last.out.error = "none"
    /\ last.out.is_valid
    /\ Successors(last.pre, last.todo_id) # {}
    /\ LinkCount(last.pre) = MaxLinks

\* C2: from a link-free store, in every state reached through set_dependency
\* and remove_dependency the graph of previous and next edges has no cycle:
\* no todo links to itself, and no A, B have A.next = B with B.previous = A
\* or B.next = A.
C2_GraphAcyclic ==
    /\ ~HasCycle(todos)
    /\ \A a \in DOMAIN todos : a \notin Successors(todos, a)
    /\ \A a, b \in DOMAIN todos :
         (get_by_id(todos, a).exists /\ get_by_id(todos, a).next_todo_id = b)
         => a \notin Successors(todos, b)

\* A successful set_dependency has completed a chain of MaxLinks links.
C2_Witness ==
    /\ last.op = "set_dependency"
    /\ last.out.error = "none"
    /\ LinkCount(todos) = MaxLinks
    /\ todos # last.pre

\* C3: remove_dependency by the owner with a valid type succeeds and leaves
\* the named link field of the todo none, whatever it held before.
C3_RemovalClearsLink ==
    (/\ last.op = "remove_dependency"
     /\ Owned(last.pre, last.todo_id, last.user_id)
     /\ last.dependency_type \in DependencyTypes)
    => /\ last.out.error = "none"
       /\ Link(get_by_id(todos, last.todo_id), last.dependency_type) = None

\* C4: with A.next = B and B.next = C set by set_dependency and nothing else
\* written, get_dependency_chain(B, owner, both) returns the ids [A, B, C]
\* and total_todos = 3.
C4_ChainOrdering ==
    \A a, b, c \in TodoIds :
      (/\ last.op = "get_dependency_chain"
       /\ last.todo_id = b /\ last.direction = "both"
       /\ Cardinality({a, b, c}) = 3
       /\ \A t \in {a, b, c} : Owned(last.pre, t, last.user_id)
       /\ get_by_id(last.pre, a).next_todo_id = b
       /\ get_by_id(last.pre, b).next_todo_id = c
       /\ LinkCount(last.pre) = 2)
      => /\ last.out.error = "none"
         /\ last.out.chain = <<a, b, c>>
         /\ last.out.total_todos = 3

\* C5: when both todos exist and belong to the requester, the type is valid
\* and todo_id is reachable from dependency_todo_id over previous and next
\* edges, set_dependency fails with CircularDependency and writes nothing.
C5_CycleRejected ==
    (/\ last.op = "set_dependency"
     /\ Owned(last.pre, last.todo_id, last.user_id)
     /\ Owned(last.pre, last.dependency_todo_id, last.user_id)
     /\ last.dependency_type \in DependencyTypes
     /\ Reachable(last.pre, last.dependency_todo_id, last.todo_id))
    => /\ last.out.error = "CircularDependency"
       /\ todos = last.pre

\* A rejected link whose target reaches todo_id only through a third todo.
C5_Witness ==
    /\ last.op = "set_dependency"
    /\ last.out.error = "CircularDependency"
    /\ last.todo_id # last.dependency_todo_id
    /\ last.todo_id \notin Successors(last.pre, last.dependency_todo_id)
    /\ Reachable(last.pre, last.dependency_todo_id, last.todo_id)

\* C6: set_dependency(id, type, id) on an owned todo with either valid type
\* fails with CircularDependency, the cycle check fetches no todo, and the
\* store is unchanged.
C6_SelfLinkRejected ==
    (/\ last.op = "set_dependency"
     /\ last.todo_id = last.dependency_todo_id
     /\ Owned(last.pre, last.todo_id, last.user_id)
     /\ last.dependency_type \in DependencyTypes)
    => /\ last.out.error = "CircularDependency"
       /\ last.out.walks = << <<>> >>
       /\ todos = last.pre

\* A self-link was requested for a todo that already carries a link.
C6_Witness ==
    /\ last.op = "set_dependency"
    /\ last.todo_id = last.dependency_todo_id
    /\ last.out.error = "CircularDependency"
    /\ Successors(last.pre, last.todo_id) # {}

\* C7: when both todos exist and one of them is not the requester's,
\* set_dependency fails with AccessDenied whatever the type and the links,
\* and writes nothing.
C7_CrossOwnerRejected ==
    (/\ last.op = "set_dependency"
     /\ get_by_id(last.pre, last.todo_id).exists
     /\ get_by_id(last.pre, last.dependency_todo_id).exists
     /\ \/ get_by_id(last.pre, last.todo_id).user_id # last.user_id
        \/ get_by_id(last.pre, last.dependency_todo_id).user_id # last.user_id)
    => /\ last.out.error = "AccessDenied"
       /\ todos = last.pre

\* The requester owns todo_id but not the target, which already links back
\* to todo_id, and the type is not a valid one.
C7_Witness ==
    /\ last.op = "set_dependency"
    /\ last.out.error = "AccessDenied"
    /\ Owned(last.pre, last.todo_id, last.user_id)
    /\ last.todo_id \in Successors(last.pre, last.dependency_todo_id)
    /\ last.dependency_type \notin DependencyTypes

\* C8: when the previous-only or the next-only walk from an owned todo comes
\* back to a todo it already passed, validate_dependency returns a response
\* with has_circular_dependency = true, is_valid = false, chain_length = 0,
\* and writes nothing.
C8_CycleReported ==
    (/\ last.op = "validate_dependency"
     /\ Owned(last.pre, last.todo_id, last.user_id)
     /\ \/ Revisits(last.pre, "previous", last.todo_id)
        \/ Revisits(last.pre, "next", last.todo_id))
    => /\ last.out.error = "none"
       /\ last.out.has_circular_dependency
       /\ ~last.out.is_valid
       /\ last.out.chain_length = 0
       /\ todos = last.pre

\* The previous walk runs into a cycle that does not contain todo_id, and the
\* next walk finds none.
C8_Witness ==
    /\ last.op = "validate_dependency"
    /\ last.out.has_circular_dependency
    /\ Revisits(last.pre, "previous", last.todo_id)
    /\ ~Revisits(last.pre, "next", last.todo_id)
    /\ last.todo_id \notin FieldClosure(last.pre, "previous",
                              FieldSuccessors(last.pre, "previous", last.todo_id))

\* C9: in every store, cyclic, branching or dangling, the cycle check of
\* set_dependency and every walk of validate_dependency and
\* get_dependency_chain ends within the depth the number of ids allows and
\* fetches no todo id twice.
C9_WalksTerminate ==
    (last.op \in {"set_dependency", "validate_dependency", "get_dependency_chain"})
    => /\ ~last.out.exhausted
       /\ \A w \in DOMAIN last.out.walks :
            /\ NoDuplicates(last.out.walks[w])
            /\ Len(last.out.walks[w]) <= MaxTodoId

\* The cycle check has walked a store whose links already form a cycle that
\* todo_id is not part of, and found no path to todo_id.
C9_Witness ==
    /\ last.op = "set_dependency"
    /\ HasCycle(last.pre)
    /\ Len(last.out.walks) = 1
    /\ Len(last.out.walks[1]) >= 2
    /\ ~Reachable(last.pre, last.dependency_todo_id, last.todo_id)

\* C10: right after a successful create_project with owner_id = o the new
\* project exists with owner_id = o, and the members table holds exactly one
\* row for (project, o), whose role is 'Owner'.
C10_OwnerMembershipOnCreate ==
    (last.op = "create_project" /\ last.out.error = "none") =>
        LET project_id == last.out.project_id
            rows == {m \in members : m.project_id = project_id
                                     /\ m.user_id = last.user_id} IN
        /\ project_id \in 1..Len(projects)
        /\ projects[project_id].exists
        /\ projects[project_id].owner_id = last.user_id
        /\ Cardinality(rows) = 1
        /\ \A m \in rows : m.role = "Owner"

\* A second project created by a user who is already enrolled, under
\* another role, in the first one.
C10_Witness ==
    /\ last.op = "create_project"
    /\ last.out.error = "none"
    /\ last.out.project_id = 2
    /\ [project_id |-> 1, user_id |-> last.user_id, role |-> "Admin"] \in members
    /\ [project_id |-> last.out.project_id, user_id |-> last.user_id,
        role |-> "Owner"] \in members

\* C11: delete_project asked by the owner of an existing project removes the
\* project and every membership row of it; asked by anyone else it fails with
\* ProjectAccessDenied and leaves the projects and the membership rows as
\* they were.
C11_DeleteProject ==
    (/\ last.op = "delete_project"
     /\ project_get_by_id(last.pre.projects, last.project_id).exists)
    => IF project_get_by_id(last.pre.projects, last.project_id).owner_id = last.user_id
       THEN /\ last.out.error = "none"
            /\ ~project_get_by_id(projects, last.project_id).exists
            /\ \A m \in members : m.project_id # last.project_id
       ELSE /\ last.out.error = "ProjectAccessDenied"
            /\ projects = last.pre.projects
            /\ members = last.pre.members

\* C12: get_project_by_id on an existing project succeeds for everyone when
\* the project is public; when it is private it succeeds exactly for the
\* owner and for users with a membership row, and fails with
\* ProjectAccessDenied for the others.  The is_private consulted is the one
\* stored when the call is made.
C12_ReadAccess ==
    (/\ last.op = "get_project_by_id"
     /\ project_get_by_id(last.pre.projects, last.project_id).exists)
    => LET project == project_get_by_id(last.pre.projects, last.project_id)
           allowed == \/ ~project.is_private
                      \/ project.owner_id = last.user_id
                      \/ \E m \in last.pre.members :
                            m.project_id = last.project_id /\ m.user_id = last.user_id IN
       /\ allowed => last.out.error = "none"
       /\ ~allowed => last.out.error = "ProjectAccessDenied"
       /\ projects = last.pre.projects
       /\ members = last.pre.members

\* A member, not the owner, reads a private project that has been renamed.
C12_Witness ==
    /\ last.op = "get_project_by_id"
    /\ last.out.error = "none"
    /\ project_get_by_id(projects, last.project_id).is_private
    /\ project_get_by_id(projects, last.project_id).name = "q"
    /\ project_get_by_id(projects, last.project_id).owner_id # last.user_id
    /\ get_member(members, last.project_id, last.user_id).role = "Member"

\* C13: update_project on an existing project succeeds exactly when the
\* requester is the owner or holds a membership row with role 'Owner' or
\* 'Admin' at the time of the call; anyone else gets ProjectAccessDenied and
\* the project keeps its name and is_private.
C13_UpdatePermission ==
    (/\ last.op = "update_project"
     /\ project_get_by_id(last.pre.projects, last.project_id).exists)
    => LET project == project_get_by_id(last.pre.projects, last.project_id)
           allowed == \/ project.owner_id = last.user_id
                      \/ \E m \in last.pre.members :
                            /\ m.project_id = last.project_id
                            /\ m.user_id = last.user_id
                            /\ m.role \in {"Owner", "Admin"} IN
       /\ allowed => last.out.error = "none"
       /\ ~allowed => /\ last.out.error = "ProjectAccessDenied"
                      /\ projects = last.pre.projects
       /\ members = last.pre.members

\* A user whose role is 'Member' is refused on a project that an earlier
\* update has renamed.
C13_Witness ==
    /\ last.op = "update_project"
    /\ last.out.error = "ProjectAccessDenied"
    /\ get_member(members, last.project_id, last.user_id).role = "Member"
    /\ project_get_by_id(projects, last.project_id).name = "q"

\* C14: when both todos exist and belong to the requester, the type is valid
\* and todo_id is not reachable from dependency_todo_id over previous and
\* next edges, set_dependency succeeds - also when the walk from
\* dependency_todo_id comes to some todo by two paths.
C14_NoSpuriousRejection ==
    (/\ last.op = "set_dependency"
     /\ Owned(last.pre, last.todo_id, last.user_id)
     /\ Owned(last.pre, last.dependency_todo_id, last.user_id)
     /\ last.dependency_type \in DependencyTypes
     /\ ~Reachable(last.pre, last.dependency_todo_id, last.todo_id))
    => last.out.error = "none"

\* C15: set_dependency takes no lock.  When every call writes the store it
\* checked, the links stay free of cycles; a cycle appears only after some
\* call wrote between the check and the write of another.
C15_AtomicCallsStayAcyclic ==
    (last.op = "race" /\ HasCycle(todos))
    => \E p \in Callers : last.calls[p].stale

\* Both calls checked before either wrote, both returned success, and the
\* links A.next = B, B.next = A form a cycle.
C15_Witness ==
    /\ last.op = "race"
    /\ \A p \in Callers : last.calls[p].pc = "done" /\ last.calls[p].error = "none"
    /\ last.calls[1].stale # last.calls[2].stale
    /\ \E a, b \in TodoIds :
         /\ a # b
         /\ get_by_id(todos, a).next_todo_id = b
         /\ get_by_id(todos, b).next_todo_id = a
         /\ LinkCount(todos) = 2

\* C16: for an existing todo owned by the requester and a direction among
\* previous, next and both, get_dependency_chain returns a response whose
\* chain contains the requested todo; it raises nothing.
C16_ChainAnswers ==
    (/\ last.op = "get_dependency_chain"
     /\ Owned(last.pre, last.todo_id, last.user_id)
     /\ last.direction \in {"previous", "next", "both"})
    => /\ last.out.error = "none"
       /\ \E i \in DOMAIN last.out.chain : last.out.chain[i] = last.todo_id

\* C17: whenever todo_id lies on a cycle of the graph of previous and next
\* edges taken together, validate_dependency(todo_id) by its owner reports
\* has_circular_dependency = true.
C17_EveryCycleReported ==
    (/\ last.op = "validate_dependency"
     /\ Owned(last.pre, last.todo_id, last.user_id)
     /\ last.todo_id \in Closure(last.pre, Successors(last.pre, last.todo_id)))
    => /\ last.out.error = "none"
       /\ last.out.has_circular_dependency

\* C18: after a successful set_dependency(t, type, d) the field of t named
\* by type holds d; the other link field of t, the owner of t, every other
\* todo (d included) and the set of existing todos are as before.
C18_SetDependencyFrame ==
    (last.op = "set_dependency" /\ last.out.error = "none")
    => LET t == last.todo_id
           other == IF last.dependency_type = "previous" THEN "next" ELSE "previous" IN
       /\ Link(todos[t], last.dependency_type) = last.dependency_todo_id
       /\ Link(todos[t], other) = Link(last.pre[t], other)
       /\ todos[t].user_id = last.pre[t].user_id
       /\ DOMAIN todos = DOMAIN last.pre
       /\ \A x \in DOMAIN todos :
            /\ todos[x].exists = last.pre[x].exists
            /\ x # t => todos[x] = last.pre[x]

\* A link replaced by another while t keeps its other link and d carries
\* no link back.
C18_Witness ==
    /\ last.op = "set_dependency"
    /\ last.out.error = "none"
    /\ Link(last.pre[last.todo_id], last.dependency_type)
         \notin {None, last.dependency_todo_id}
    /\ Successors(todos, last.todo_id) # {last.dependency_todo_id}
    /\ Successors(todos, last.dependency_todo_id) = {}

\* C19: whenever todo_id or dependency_todo_id does not exist,
\* set_dependency fails with NotFound - also when todo_id exists and
\* belongs to someone else - and writes nothing.
C19_NotFoundFirst ==
    (/\ last.op = "set_dependency"
     /\ \/ ~get_by_id(last.pre, last.todo_id).exists
        \/ ~get_by_id(last.pre, last.dependency_todo_id).exists)
    => /\ last.out.error = "NotFound"
       /\ todos = last.pre

\* C20: with the todos existing and owned by the requester, a
\* dependency_type other than 'previous' and 'next' makes set_dependency and
\* remove_dependency fail with InvalidDependency and change no link; in
\* set_dependency also when the link is a self-link or would close a cycle.
C20_InvalidType ==
    /\ (/\ last.op = "set_dependency"
        /\ Owned(last.pre, last.todo_id, last.user_id)
        /\ Owned(last.pre, last.dependency_todo_id, last.user_id)
        /\ last.dependency_type \notin DependencyTypes)
       => (last.out.error = "InvalidDependency" /\ todos = last.pre)
    /\ (/\ last.op = "remove_dependency"
        /\ Owned(last.pre, last.todo_id, last.user_id)
        /\ last.dependency_type \notin DependencyTypes)
       => (last.out.error = "InvalidDependency" /\ todos = last.pre)

\* An invalid type on a link that would close a cycle of three todos.
C20_Witness ==
    /\ last.op = "set_dependency"
    /\ last.out.error = "InvalidDependency"
    /\ Owned(last.pre, last.dependency_todo_id, last.user_id)
    /\ last.todo_id # last.dependency_todo_id
    /\ last.todo_id \notin Successors(last.pre, last.dependency_todo_id)
    /\ Reachable(last.pre, last.dependency_todo_id, last.todo_id)

\* C21: get_dependency_chain on an existing owned todo with a direction
\* other than 'previous', 'next' and 'both' fails with InvalidDependency.
C21_UnknownDirectionRejected ==
    (/\ last.op = "get_dependency_chain"
     /\ Owned(last.pre, last.todo_id, last.user_id)
     /\ last.direction \notin {"previous", "next", "both"})
    => last.out.error = "InvalidDependency"

\* C22: when validate_dependency finds no cycle, chain_length is the number
\* of distinct todos on the two walks together - todo_id, the todos reached
\* over previous links and the todos reached over next links; it is 0
\* exactly when has_circular_dependency is true.
C22_ChainLength ==
    (/\ last.op = "validate_dependency"
     /\ Owned(last.pre, last.todo_id, last.user_id))
    => LET walked == {x \in FieldClosure(last.pre, "previous", {last.todo_id})
                            \cup FieldClosure(last.pre, "next", {last.todo_id}) :
                        get_by_id(last.pre, x).exists} IN
       /\ last.out.error = "none"
       /\ last.out.has_circular_dependency <=> last.out.chain_length = 0
       /\ ~last.out.has_circular_dependency
            => last.out.chain_length = Cardinality(walked)

\* The position of todo_id in a chain, 0 when it is absent.
IndexOf(chain, todo_id) ==
    IF \E i \in DOMAIN chain : chain[i] = todo_id
    THEN CHOOSE i \in DOMAIN chain : chain[i] = todo_id
    ELSE 0

\* C23: for an authorized request get_dependency_chain returns a chain that
\* holds todo_id once and no id twice, with total_todos its length; each
\* entry left of todo_id is the previous link of its right neighbour, each
\* entry right of it the next link of its left neighbour; with direction
\* next todo_id comes first, with previous it comes last; nothing is written.
C23_ChainShape ==
    (/\ last.op = "get_dependency_chain"
     /\ Owned(last.pre, last.todo_id, last.user_id))
    => LET chain == last.out.chain
           at == IndexOf(chain, last.todo_id) IN
       /\ last.out.error = "none"
       /\ at # 0
       /\ NoDuplicates(chain)
       /\ last.out.total_todos = Len(chain)
       /\ \A i \in 1..(Len(chain) - 1) :
            /\ i < at => chain[i] = get_by_id(last.pre, chain[i + 1]).previous_todo_id
            /\ i >= at => chain[i + 1] = get_by_id(last.pre, chain[i]).next_todo_id
       /\ last.direction = "next" => at = 1
       /\ last.direction = "previous" => at = Len(chain)
       /\ todos = last.pre

\* Some id of the set names no existing todo.
HasDangling(store, ids) == \E x \in ids : ~get_by_id(store, x).exists

\* C24: a link to a todo that does not exist ends a walk and is no error:
\* the cycle check of set_dependency finds no cycle through it,
\* validate_dependency flags none, and get_dependency_chain returns the
\* existing todos of the chain.
C24_DanglingLinks ==
    /\ (/\ last.op = "set_dependency"
        /\ Owned(last.pre, last.todo_id, last.user_id)
        /\ Owned(last.pre, last.dependency_todo_id, last.user_id)
        /\ last.dependency_type \in DependencyTypes
        /\ HasDangling(last.pre, Closure(last.pre, {last.dependency_todo_id}))
        /\ ~Reachable(last.pre, last.dependency_todo_id, last.todo_id))
       => last.out.error = "none"
    /\ (/\ last.op = "validate_dependency"
        /\ Owned(last.pre, last.todo_id, last.user_id)
        /\ \E field \in DependencyTypes :
              HasDangling(last.pre, FieldClosure(last.pre, field, {last.todo_id}))
        /\ \A field \in DependencyTypes : ~Revisits(last.pre, field, last.todo_id))
       => (last.out.error = "none" /\ ~last.out.has_circular_dependency)
    /\ (/\ last.op = "get_dependency_chain"
        /\ Owned(last.pre, last.todo_id, last.user_id)
        /\ last.direction \in DependencyTypes
        /\ HasDangling(last.pre,
                       FieldClosure(last.pre, last.direction, {last.todo_id})))
       => /\ last.out.error = "none"
          /\ \E i \in DOMAIN last.out.chain : last.out.chain[i] = last.todo_id
          /\ \A i \in DOMAIN last.out.chain :
               get_by_id(last.pre, last.out.chain[i]).exists

DependencyOps ==
    {"set_dependency", "remove_dependency", "validate_dependency",
     "get_dependency_chain"}

\* The response carries no todo data.
NoTodoData(out) ==
    /\ out.chain = <<>>
    /\ out.total_todos = 0
    /\ out.chain_length = 0
    /\ ~out.is_valid
    /\ ~out.has_circular_dependency

\* C25: each of the four dependency operations fails with NotFound when
\* todo_id names no todo and with AccessDenied when the todo belongs to
\* another user; in both cases it returns no todo data and writes nothing.
C25_Authorization ==
    last.op \in DependencyOps
    => LET todo_dto == get_by_id(last.pre, last.todo_id) IN
       /\ ~todo_dto.exists
            => (last.out.error = "NotFound" /\ NoTodoData(last.out)
                /\ todos = last.pre)
       /\ (todo_dto.exists /\ todo_dto.user_id # last.user_id)
            => (last.out.error = "AccessDenied" /\ NoTodoData(last.out)
                /\ todos = last.pre)

C25_Witness ==
    /\ last.op = "validate_dependency"
    /\ get_by_id(last.pre, last.todo_id).exists
    /\ get_by_id(last.pre, last.todo_id).user_id # last.user_id
    /\ get_by_id(last.pre, last.todo_id).next_todo_id # None
    /\ last.out.error = "AccessDenied"
    /\ todos = last.pre

\* The table without the row of one todo.
WithoutTodo(store, todo_id) ==
    [i \in DOMAIN store |-> IF i = todo_id THEN NoTodo ELSE store[i]]

\* C26: when the links of the requested todo lead to a todo of another
\* user, the chain get_dependency_chain returns holds only todos of the
\* requesting user, and is the chain it returns on a table that lacks the
\* other user's todo.
C26_OwnerScopedChain ==
    (/\ last.op = "get_dependency_chain"
     /\ Owned(last.pre, last.todo_id, last.user_id)
     /\ last.direction \in {"previous", "next", "both"}
     /\ \E x \in Closure(last.pre, {last.todo_id}) :
          /\ get_by_id(last.pre, x).exists
          /\ get_by_id(last.pre, x).user_id # last.user_id)
    => /\ last.out.error = "none"
       /\ \E i \in DOMAIN last.out.chain : last.out.chain[i] = last.todo_id
       /\ \A i \in DOMAIN last.out.chain :
            get_by_id(last.pre, last.out.chain[i]).user_id = last.user_id
       /\ \A x \in TodoIds :
            (get_by_id(last.pre, x).exists
             /\ get_by_id(last.pre, x).user_id # last.user_id)
            => get_dependency_chain(WithoutTodo(last.pre, x), last.todo_id,
                                    last.user_id, last.direction).chain
               = last.out.chain

\* C27: no write of a link field escapes the cycle check: a call of
\* set_dependency, remove_dependency or update_todo that starts on a graph
\* without a cycle leaves a graph without a cycle.
C27_NoWriteEscapes ==
    (/\ last.op \in {"set_dependency", "remove_dependency", "update_todo"}
     /\ ~HasCycle(last.pre))
    => ~HasCycle(todos)

OtherType(dependency_type) ==
    IF dependency_type = "previous" THEN "next" ELSE "previous"

\* C28: the cycle decision ignores the dependency type: on one store and
\* one pair of todos of the requester, set_dependency fails with
\* CircularDependency for 'previous' exactly when it does for 'next'; so
\* when A.next = B, set_dependency(B, 'previous', A) fails with
\* CircularDependency.
C28_TypeBlindCycleCheck ==
    (/\ last.op = "set_dependency"
     /\ Owned(last.pre, last.todo_id, last.user_id)
     /\ Owned(last.pre, last.dependency_todo_id, last.user_id)
     /\ last.dependency_type \in DependencyTypes)
    => /\ last.out.error = "CircularDependency"
          <=> set_dependency(last.pre, last.todo_id,
                             OtherType(last.dependency_type),
                             last.dependency_todo_id,
                             last.user_id).error = "CircularDependency"
       /\ (/\ last.dependency_type = "previous"
           /\ get_by_id(last.pre, last.dependency_todo_id).next_todo_id
                = last.todo_id)
          => last.out.error = "CircularDependency"

C28_Witness ==
    /\ last.op = "set_dependency"
    /\ Owned(last.pre, last.todo_id, last.user_id)
    /\ Owned(last.pre, last.dependency_todo_id, last.user_id)
    /\ last.todo_id # last.dependency_todo_id
    /\ last.dependency_type = "previous"
    /\ get_by_id(last.pre, last.dependency_todo_id).next_todo_id = last.todo_id
    /\ last.out.error = "CircularDependency"
    /\ todos = last.pre

\* The membership rows of one user in one project.
RowsOf(rows, project_id, user_id) ==
    {m \in rows : m.project_id = project_id /\ m.user_id = user_id}

\* C29: while a project exists its owner has exactly one membership row,
\* with role 'Owner'; remove_member and update_member_role aimed at the
\* owner fail with ProjectAccessDenied and change nothing; and no project
\* and user have more than one membership row.
C29_OwnerMembershipKept ==
    /\ \A project_id \in 1..Len(projects) :
         projects[project_id].exists
         => RowsOf(members, project_id, projects[project_id].owner_id)
            = {[project_id |-> project_id,
                user_id |-> projects[project_id].owner_id, role |-> "Owner"]}
    /\ \A project_id \in 1..Len(projects), user_id \in ProjectUsers :
         Cardinality(RowsOf(members, project_id, user_id)) <= 1
    /\ (/\ last.op \in {"remove_member", "update_member_role"}
        /\ project_get_by_id(last.pre.projects, last.project_id).exists
        /\ project_get_by_id(last.pre.projects, last.project_id).owner_id
             = last.other_user_id)
       => /\ last.out.error = "ProjectAccessDenied"
          /\ projects = last.pre.projects
          /\ members = last.pre.members

C29_Witness ==
    /\ last.op = "remove_member"
    /\ project_get_by_id(last.pre.projects, last.project_id).exists
    /\ project_get_by_id(last.pre.projects, last.project_id).owner_id
         = last.other_user_id
    /\ last.user_id # last.other_user_id
    /\ get_member(last.pre.members, last.project_id, last.user_id).role = "Admin"
    /\ last.out.error = "ProjectAccessDenied"
    /\ RowsOf(members, last.project_id, last.other_user_id) # {}

====
